---- MODULE Spec2Model ----
(***************************************************************************)
(* State-machine model of src/src/discord-rpc.cpp: the bounded outbound    *)
(* send queue, the per-kind event mailboxes, the reconnect schedule, the   *)
(* background I/O loop DiscordRpcIo and the public entry points            *)
(* Discord_UpdatePresence, Discord_RunCallbacks, Discord_UpdateConnection  *)
(* and Discord_Shutdown.                                                   *)
(*                                                                         *)
(* Threads: "main" is the application thread that owns the session (it     *)
(* calls UpdatePresence, RunCallbacks and Shutdown), "worker" is a second  *)
(* application thread that only calls UpdatePresence, "io" is IoThread.    *)
(* The specifications below drive "main" and "io": the races they exhibit  *)
(* already occur between one application thread and IoThread.              *)
(* Every access to a std::atomic is one step; a plain (non-atomic) write   *)
(* that another thread may read is in progress from the step before it to  *)
(* the step that completes it, and a read that overlaps it may see the old *)
(* value or a torn one.                                                    *)
(*                                                                         *)
(* RpcConnection (rpc_connection.h) and Backoff (backoff.h) are not among  *)
(* the source files; they are modelled from their interface in spec.md.    *)
(***************************************************************************)
EXTENDS Integers, Sequences, FiniteSets, TLC

\* ---------------------------------------------------------------- constants
MessageQueueSize == 8
BackoffMin == 500
BackoffMax == 60000

\* ------------------------------------------------------------------- bounds
\* Discord_UpdatePresence calls the application threads may start.
MaxCalls == 9
\* Frames the peer sends over the life of the session.
MaxInbound == 2
\* Discord_RunCallbacks calls the main thread may start.
MaxRuns == 2
\* The clock runs from 0 to MaxNow milliseconds.
MaxNow == 45000
\* The occurrences of a mailbox that are remembered: the latest OccWindow.
OccWindow == 2
\* Discord_Initialize calls over the life of the process.
MaxInits == 2

AppThreads == {"main", "worker"}
Threads == AppThreads \cup {"io"}
Slots == 0 .. (MessageQueueSize - 1)

AllHandlers ==
    {"ready", "disconnected", "errored", "presenceRequested", "joinGame", "spectateGame"}

Secrets == {"A", "B"}
ErrorData == {<<4000, "oops">>, <<4001, "bad">>}
DisconnectData == {<<1, "closed">>}
Torn == "torn"
NoData == "none"

\* A QueuedMessage as the encoder leaves it: id is the reservation ticket of
\* the enqueue that wrote it (the value SendQueueNextAdd++ returned), nonce the
\* request identifier, evt what the frame asks for.
EmptyMessage == [id |-> -1, nonce |-> 0, evt |-> "none"]
TornMessage == [id |-> -2, nonce |-> 0, evt |-> Torn]

\* Inbound frames as the classifier sees them: whether a string nonce is
\* present, the evt member (NoData when absent) and the data it reads.
Frames ==
    [nonce : {TRUE}, evt : {"ERROR"}, data : ErrorData]
    \cup [nonce : {TRUE}, evt : {"OTHER", NoData}, data : {NoData}]
    \cup [nonce : {FALSE}, evt : {"PRESENCE_REQUESTED", "OTHER", NoData}, data : {NoData}]
    \cup [nonce : {FALSE}, evt : {"JOIN_GAME", "SPECTATE_GAME"}, data : Secrets]
    \cup [nonce : {TRUE}, evt : {"JOIN_GAME"}, data : {"A"}]
    \cup [nonce : {TRUE}, evt : {"PRESENCE_REQUESTED"}, data : {NoData}]
    \cup [nonce : {FALSE}, evt : {"ERROR"}, data : {<<4000, "oops">>}]
NoFrame == [nonce |-> FALSE, evt |-> NoData, data |-> NoData]

VARIABLES
    \* static state of discord-rpc.cpp
    SendQueue, SendQueueNextAdd, SendQueueNextSend, SendQueuePendingSends, Nonce,
    WasJustConnected, WasJustDisconnected, GotErrorMessage,
    WasPresenceRequested, WasJoinGame, WasSpectateGame,
    JoinGameSecret, SpectateGameSecret, LastError, LastDisconnectError,
    Handlers, Connection, ReconnectTimeMs, NextConnect, KeepRunning,
    \* threads: position, and the locals of an enqueue / of the tick
    pc, est, eticket, enonce, ioIdx, ioMsg, ioRet, woken,
    \* environment: the clock, what the callers and the peer have done so far
    now, attempts, runs, inLeft,
    \* observations: the tickets committed and not yet written, the last frame
    \* handed to Connection->Write, per mailbox the payloads of the occurrences
    \* set since its flag was last cleared, the occurrences the running
    \* RunCallbacks took with its last exchange, the handlers it has invoked,
    \* the last handler invocation, the loop iterations finished after
    \* KeepRunning was cleared, the RpcConnection::Destroy calls
    committed, lastWrite, occ, rcTaken, rcCalls, lastCall, lateTicks, destroyCount,
    \* the Discord_Initialize calls, the subscribes the last onConnect
    \* committed, the last delay computed for NextConnect, the exchanges of
    \* the running RunCallbacks, the tickets of the frames handed to
    \* Connection->Write
    inits, subs, sched, rcSeen, sent

qvars == <<SendQueue, SendQueueNextAdd, SendQueueNextSend, SendQueuePendingSends, Nonce>>
fvars == <<WasJustConnected, WasJustDisconnected, GotErrorMessage,
           WasPresenceRequested, WasJoinGame, WasSpectateGame>>
pvars == <<JoinGameSecret, SpectateGameSecret, LastError, LastDisconnectError>>
cvars == <<Handlers, Connection, KeepRunning, destroyCount>>
tvars == <<ReconnectTimeMs, NextConnect, now, sched>>
evars == <<est, eticket, enonce>>
ivars == <<ioIdx, ioMsg, ioRet>>
wvars == <<committed, lastWrite, sent>>
rvars == <<lastCall, rcTaken, rcCalls, runs, rcSeen>>
mvars == <<fvars, pvars, occ>>
ovars == <<inits, subs>>
vars == <<qvars, fvars, pvars, cvars, tvars, evars, ivars, wvars, rvars,
          pc, woken, attempts, inLeft, occ, lateTicks, ovars>>

Min(a, b) == IF a <= b THEN a ELSE b

NoWrite == [frame |-> EmptyMessage, due |-> -1, idx |-> -1, open |-> FALSE]
NoCall == [handler |-> "none", data |-> NoData, taken |-> <<>>]

\* The last computation of NextConnect: by an open attempt or by onDisconnect,
\* at which time and with which delay, whether a tick has since found the
\* transport closed and not due, and what the computation before it was.
\* A delay of 0 stands for none since the backoff was last reset.
NoSchedule == [by |-> "none", at |-> 0, delay |-> 0, skipped |-> FALSE, after |-> "none"]

\* ------------------------------------------------------------ initial state
\* The state when Discord_Initialize has returned: the statics hold their
\* initialisers, handlers holds the caller's table, the connection is
\* created with both callbacks set and IoThread has been started.
InitWith(handlers, frames) ==
    /\ SendQueue = [i \in Slots |-> EmptyMessage]
    /\ SendQueueNextAdd = 0
    /\ SendQueueNextSend = 0
    /\ SendQueuePendingSends = 0
    /\ Nonce = 1
    /\ WasJustConnected = FALSE
    /\ WasJustDisconnected = FALSE
    /\ GotErrorMessage = FALSE
    /\ WasPresenceRequested = FALSE
    /\ WasJoinGame = FALSE
    /\ WasSpectateGame = FALSE
    /\ JoinGameSecret = ""
    /\ SpectateGameSecret = ""
    /\ LastError = <<0, "">>
    /\ LastDisconnectError = <<0, "">>
    /\ Handlers = handlers
    /\ Connection = [isOpen |-> FALSE, onConnect |-> TRUE, onDisconnect |-> TRUE]
    /\ ReconnectTimeMs = BackoffMin
    /\ NextConnect = 0
    /\ KeepRunning = TRUE
    /\ pc = [t \in Threads |-> IF t = "io" THEN "loop" ELSE "idle"]
    /\ est = [t \in Threads |-> "none"]
    /\ eticket = [t \in Threads |-> 0]
    /\ enonce = [t \in Threads |-> 0]
    /\ ioIdx = 0
    /\ ioMsg = NoFrame
    /\ ioRet = "none"
    /\ woken = FALSE
    /\ now = 0
    /\ attempts = 0
    /\ runs = 0
    /\ inLeft = frames
    /\ committed = <<>>
    /\ lastWrite = NoWrite
    /\ lastCall = NoCall
    /\ occ = [k \in AllHandlers |-> <<>>]
    /\ rcTaken = <<>>
    /\ rcCalls = <<>>
    /\ lateTicks = 0
    /\ destroyCount = 0
    /\ inits = 1
    /\ subs = <<>>
    /\ sched = NoSchedule
    /\ rcSeen = <<>>
    /\ sent = {}

\* ------------------------------------------------------------------ Backoff
\* Backoff::nextDelay: the current delay, which then doubles up to the ceiling.
BackoffNextDelay == ReconnectTimeMs
BackoffAdvance == Min(2 * ReconnectTimeMs, BackoffMax)

\* UpdateReconnectTime.
UpdateReconnectTime ==
    /\ NextConnect' = now + BackoffNextDelay
    /\ ReconnectTimeMs' = BackoffAdvance

\* The computation is noted: who made it, when, and the delay it was given.
Scheduled(who) ==
    sched' = [by |-> who, at |-> now, delay |-> (NextConnect' - now),
              skipped |-> FALSE,
              after |-> IF sched.by = "disconnect" /\ sched.skipped
                        THEN "waited" ELSE sched.by]

\* ------------------------------------------------------------- send queue
\* The three counters are std::atomic_uint and wrap at 2^32, a multiple of
\* MessageQueueSize, so a slot index is the same with and without the wrap;
\* the calls the model makes keep them far below it.
SlotOf(ticket) == ticket % MessageQueueSize

\* The admission test off by one: > where the code has >=.
QueueFullOffByOne(pending) == pending > MessageQueueSize

\* SendQueueGetNextAddMessage's admission test on the loaded counter.
QueueFull(pending) == pending >= MessageQueueSize

\* A thread holds a reservation from SendQueueNextAdd++ to SendQueueCommitMessage.
Reserved(t) == est[t] \in {"nonce", "fill", "commit"}

\* The evt of the frame thread t is enqueuing.
EvtOf(t) ==
    IF t \in AppThreads THEN "SET_ACTIVITY"
    ELSE CASE pc[t] = "oc_pr" -> "PRESENCE_REQUESTED"
           [] pc[t] = "oc_jg" -> "JOIN_GAME"
           [] OTHER -> "SPECTATE_GAME"

\* Where thread t continues when its enqueue returns.
AfterEnqueue(t) ==
    IF t \in AppThreads THEN "idle"
    ELSE CASE pc[t] = "oc_pr" -> "oc_jg"
           [] pc[t] = "oc_jg" -> "oc_sg"
           [] OTHER -> "wait"

\* The entry of an enqueue, up to SendQueuePendingSends.load(): refused when
\* the queue is full, and the caller continues at once.
BeginEnqueue(t) ==
    /\ attempts' = attempts + 1
    /\ IF QueueFull(SendQueuePendingSends)
       THEN /\ pc' = [pc EXCEPT ![t] = AfterEnqueue(t)]
            /\ est' = est
       ELSE /\ est' = [est EXCEPT ![t] = "reserve"]
            /\ pc' = IF t \in AppThreads THEN [pc EXCEPT ![t] = "update"] ELSE pc

\* Discord_UpdatePresence, to the admission test.
UpdatePresence(t) ==
    /\ t \in AppThreads
    /\ pc[t] = "idle"
    /\ attempts < MaxCalls
    /\ BeginEnqueue(t)
    /\ UNCHANGED <<qvars, fvars, pvars, cvars, tvars, eticket, enonce, ivars, wvars,
                   rvars, woken, inLeft, occ, lateTicks, ovars>>

\* SendQueueGetNextAddMessage: index = (SendQueueNextAdd++) % MessageQueueSize.
EnqReserve(t) ==
    /\ est[t] = "reserve"
    /\ eticket' = [eticket EXCEPT ![t] = SendQueueNextAdd]
    /\ SendQueueNextAdd' = SendQueueNextAdd + 1
    /\ est' = [est EXCEPT ![t] = "nonce"]
    /\ UNCHANGED <<SendQueue, SendQueueNextSend, SendQueuePendingSends, Nonce, fvars,
                   pvars, cvars, tvars, enonce, ivars, wvars, rvars, pc, woken,
                   attempts, inLeft, occ, lateTicks, ovars>>

\* Nonce++ is a plain int: the load of the post-increment.
EnqLoadNonce(t) ==
    /\ est[t] = "nonce"
    /\ enonce' = [enonce EXCEPT ![t] = Nonce]
    /\ est' = [est EXCEPT ![t] = "fill"]
    /\ UNCHANGED <<qvars, fvars, pvars, cvars, tvars, eticket, ivars, wvars, rvars,
                   pc, woken, attempts, inLeft, occ, lateTicks, ovars>>

\* What the slot holds when thread t's encoder has written it: t's frame, or a
\* mixture when another thread is writing the same slot.
FilledSlot(t) ==
    LET mine == [id |-> eticket[t], nonce |-> enonce[t], evt |-> EvtOf(t)]
    IN  IF \E u \in Threads \ {t} :
               est[u] = "fill" /\ SlotOf(eticket[u]) = SlotOf(eticket[t])
        THEN {mine, TornMessage}
        ELSE {mine}

\* The store of Nonce++, and JsonWrite...'s buffer and length written.
EnqFill(t) ==
    /\ est[t] = "fill"
    /\ Nonce' = enonce[t] + 1
    /\ \E m \in FilledSlot(t) :
           SendQueue' = [SendQueue EXCEPT ![SlotOf(eticket[t])] = m]
    /\ est' = [est EXCEPT ![t] = "commit"]
    /\ UNCHANGED <<SendQueueNextAdd, SendQueueNextSend, SendQueuePendingSends, fvars,
                   pvars, cvars, tvars, eticket, enonce, ivars, wvars, rvars, pc,
                   woken, attempts, inLeft, occ, lateTicks, ovars>>

\* SendQueueCommitMessage: SendQueuePendingSends++.
CommitPending(pending) == pending + 1

EnqCommit(t) ==
    /\ est[t] = "commit"
    /\ SendQueuePendingSends' = CommitPending(SendQueuePendingSends)
    /\ committed' = Append(committed, eticket[t])
    /\ subs' = IF t = "io" THEN Append(subs, EvtOf(t)) ELSE subs
    /\ est' = [est EXCEPT ![t] = "signal"]
    /\ UNCHANGED <<SendQueue, SendQueueNextAdd, SendQueueNextSend, Nonce, fvars,
                   pvars, cvars, tvars, eticket, enonce, ivars, lastWrite, sent,
                   rvars, pc, woken, attempts, inLeft, occ, lateTicks, inits>>

\* SignalIOActivity: notify_all reaches the loop only if it is waiting.
Notified == woken \/ pc["io"] = "wait"

EnqSignal(t) ==
    /\ est[t] = "signal"
    /\ woken' = Notified
    /\ est' = [est EXCEPT ![t] = "none"]
    /\ eticket' = [eticket EXCEPT ![t] = 0]
    /\ enonce' = [enonce EXCEPT ![t] = 0]
    /\ pc' = [pc EXCEPT ![t] = AfterEnqueue(t)]
    /\ UNCHANGED <<qvars, fvars, pvars, cvars, tvars, ivars, wvars, rvars, attempts,
                   inLeft, occ, lateTicks, ovars>>

\* ---------------------------------------------------------------- mailboxes
\* The occurrences of a mailbox after one more, with payload d, has set it.
Occurred(log, d) ==
    LET all == Append(log, d)
    IN  IF Len(all) <= OccWindow THEN all
        ELSE SubSeq(all, Len(all) - OccWindow + 1, Len(all))

MailFlag(k) ==
    CASE k = "errored" -> GotErrorMessage
      [] k = "disconnected" -> WasJustDisconnected
      [] k = "ready" -> WasJustConnected
      [] k = "presenceRequested" -> WasPresenceRequested
      [] k = "joinGame" -> WasJoinGame
      [] OTHER -> WasSpectateGame

\* Mailbox k's flag becomes v; the other flags keep their value.
SetFlag(k, v) ==
    /\ GotErrorMessage' = IF k = "errored" THEN v ELSE GotErrorMessage
    /\ WasJustDisconnected' = IF k = "disconnected" THEN v ELSE WasJustDisconnected
    /\ WasJustConnected' = IF k = "ready" THEN v ELSE WasJustConnected
    /\ WasPresenceRequested' = IF k = "presenceRequested" THEN v ELSE WasPresenceRequested
    /\ WasJoinGame' = IF k = "joinGame" THEN v ELSE WasJoinGame
    /\ WasSpectateGame' = IF k = "spectateGame" THEN v ELSE WasSpectateGame

MailPayload(k) ==
    CASE k = "errored" -> LastError
      [] k = "disconnected" -> LastDisconnectError
      [] k = "joinGame" -> JoinGameSecret
      [] k = "spectateGame" -> SpectateGameSecret
      [] OTHER -> NoData

\* Mailbox k's payload buffer becomes v; the other buffers keep their value.
SetPayload(k, v) ==
    /\ LastError' = IF k = "errored" THEN v ELSE LastError
    /\ LastDisconnectError' = IF k = "disconnected" THEN v ELSE LastDisconnectError
    /\ JoinGameSecret' = IF k = "joinGame" THEN v ELSE JoinGameSecret
    /\ SpectateGameSecret' = IF k = "spectateGame" THEN v ELSE SpectateGameSecret

\* A classifier that goes by the event name alone, whether or not the frame
\* carries a nonce.
MailboxByName(m) ==
    CASE m.evt = "ERROR" -> "errored"
      [] m.evt = "PRESENCE_REQUESTED" -> "presenceRequested"
      [] m.evt = "JOIN_GAME" -> "joinGame"
      [] m.evt = "SPECTATE_GAME" -> "spectateGame"
      [] OTHER -> "none"

\* The classifier of Discord_UpdateConnection: the mailbox a frame goes to.
Mailbox(m) ==
    IF m.nonce
    THEN IF m.evt = "ERROR" THEN "errored" ELSE "none"
    ELSE CASE m.evt = "PRESENCE_REQUESTED" -> "presenceRequested"
           [] m.evt = "JOIN_GAME" -> "joinGame"
           [] m.evt = "SPECTATE_GAME" -> "spectateGame"
           [] OTHER -> "none"

\* ------------------------------------------------------- the I/O thread
\* DiscordRpcIo's loop test, and the head of Discord_UpdateConnection: the
\* transport is open (reads follow), closed and due (NextConnect is
\* recomputed and Open follows), or closed and not due (the tick ends).
LoopContinues == KeepRunning

\* A tick that opens whatever NextConnect says.
ConnectDueAlways == TRUE

\* std::chrono::system_clock::now() >= NextConnect.
ConnectDue == now >= NextConnect

IoLoop ==
    /\ pc["io"] = "loop"
    /\ IF ~LoopContinues
       THEN /\ pc' = [pc EXCEPT !["io"] = "done"]
            /\ UNCHANGED <<ReconnectTimeMs, NextConnect, sched>>
       ELSE IF Connection.isOpen
       THEN /\ pc' = [pc EXCEPT !["io"] = "read"]
            /\ UNCHANGED <<ReconnectTimeMs, NextConnect, sched>>
       ELSE IF ConnectDue
       THEN /\ UpdateReconnectTime
            /\ Scheduled("attempt")
            /\ pc' = [pc EXCEPT !["io"] = "open"]
       ELSE /\ pc' = [pc EXCEPT !["io"] = "wait"]
            /\ sched' = [sched EXCEPT !.skipped = TRUE]
            /\ UNCHANGED <<ReconnectTimeMs, NextConnect>>
    /\ UNCHANGED <<qvars, mvars, cvars, now, evars, ivars, wvars, rvars, woken,
                   attempts, inLeft, lateTicks, ovars>>

\* The transport closes and reports it: onDisconnect runs if it is set, and
\* the interrupted call then returns to ret.
Disconnect(ret) ==
    /\ Connection' = [Connection EXCEPT !.isOpen = FALSE]
    /\ IF Connection.onDisconnect
       THEN /\ pc' = [pc EXCEPT !["io"] = "od_pay"]
            /\ ioRet' = ret
       ELSE /\ pc' = [pc EXCEPT !["io"] = ret]
            /\ ioRet' = ioRet

\* Connection->Open() succeeds: the transport is open and onConnect runs.
IoOpenConnected ==
    /\ pc["io"] = "open"
    /\ Connection' = [Connection EXCEPT !.isOpen = TRUE]
    /\ pc' = [pc EXCEPT !["io"] = IF Connection.onConnect THEN "oc_flag" ELSE "wait"]
    /\ sched' = NoSchedule
    /\ UNCHANGED <<qvars, mvars, Handlers, KeepRunning, destroyCount, ReconnectTimeMs,
                   NextConnect, now, evars,
                   ivars, wvars, rvars, woken, attempts, inLeft, lateTicks, ovars>>

\* Connection->Open() has nothing to report yet.
IoOpenPending ==
    /\ pc["io"] = "open"
    /\ pc' = [pc EXCEPT !["io"] = "wait"]
    /\ UNCHANGED <<qvars, mvars, cvars, tvars, evars, ivars, wvars, rvars, woken,
                   attempts, inLeft, lateTicks, ovars>>

\* Connection->Open() fails and reports it.
IoOpenFailed ==
    /\ pc["io"] = "open"
    /\ Disconnect("wait")
    /\ UNCHANGED <<qvars, mvars, Handlers, KeepRunning, destroyCount, tvars, evars,
                   ioIdx, ioMsg, wvars, rvars, woken, attempts, inLeft, lateTicks, ovars>>

\* An onConnect that leaves the backoff where it is.
BackoffKept == ReconnectTimeMs

\* ReconnectTimeMs.reset(), as onConnect calls it: back to the floor.
BackoffReset == BackoffMin

\* onConnect: WasJustConnected.exchange(true); ReconnectTimeMs.reset().
IoConnectFlag ==
    /\ pc["io"] = "oc_flag"
    /\ SetFlag("ready", TRUE)
    /\ occ' = [occ EXCEPT !["ready"] = Occurred(@, NoData)]
    /\ ReconnectTimeMs' = BackoffReset
    /\ subs' = <<>>
    /\ pc' = [pc EXCEPT !["io"] = "oc_pr"]
    /\ UNCHANGED <<qvars, pvars, cvars, NextConnect, now, sched, evars, ivars, wvars,
                   rvars, woken, attempts, inLeft, lateTicks, inits>>

\* The handler onConnect tests before each RegisterForEvent.
HandlerAt(p) ==
    CASE p = "oc_pr" -> "presenceRequested"
      [] p = "oc_jg" -> "joinGame"
      [] OTHER -> "spectateGame"

\* onConnect: if (Handlers.<kind>) RegisterForEvent(<KIND>), to the admission
\* test of the enqueue.
IoRegister ==
    /\ pc["io"] \in {"oc_pr", "oc_jg", "oc_sg"}
    /\ est["io"] = "none"
    /\ IF HandlerAt(pc["io"]) \in Handlers
       THEN BeginEnqueue("io")
       ELSE /\ pc' = [pc EXCEPT !["io"] = AfterEnqueue("io")]
            /\ UNCHANGED <<est, attempts>>
    /\ UNCHANGED <<qvars, mvars, cvars, tvars, eticket, enonce, ivars, wvars, rvars,
                   woken, inLeft, lateTicks, ovars>>

\* onDisconnect: LastDisconnectErrorCode and LastDisconnectErrorMessage written.
IoDisconnectPayload ==
    /\ pc["io"] = "od_pay"
    /\ \E d \in DisconnectData : SetPayload("disconnected", d)
    /\ pc' = [pc EXCEPT !["io"] = "od_flag"]
    /\ UNCHANGED <<qvars, fvars, occ, cvars, tvars, evars, ivars, wvars, rvars, woken,
                   attempts, inLeft, lateTicks, ovars>>

\* onDisconnect: WasJustDisconnected.exchange(true); UpdateReconnectTime().
IoDisconnectFlag ==
    /\ pc["io"] = "od_flag"
    /\ SetFlag("disconnected", TRUE)
    /\ occ' = [occ EXCEPT !["disconnected"] = Occurred(@, LastDisconnectError)]
    /\ UpdateReconnectTime
    /\ Scheduled("disconnect")
    /\ pc' = [pc EXCEPT !["io"] = ioRet]
    /\ ioRet' = "none"
    /\ UNCHANGED <<qvars, pvars, cvars, now, evars, ioIdx, ioMsg, wvars, rvars, woken,
                   attempts, inLeft, lateTicks, ovars>>

\* Connection->Read returns false: no complete frame is available.
IoReadNone ==
    /\ pc["io"] = "read"
    /\ pc' = [pc EXCEPT !["io"] = "wr_load"]
    /\ UNCHANGED <<qvars, mvars, cvars, tvars, evars, ivars, wvars, rvars, woken,
                   attempts, inLeft, lateTicks, ovars>>

\* Connection->Read fails: the transport closes, and Read returns false.
IoReadFailed ==
    /\ pc["io"] = "read"
    /\ Disconnect("wr_load")
    /\ UNCHANGED <<qvars, mvars, Handlers, KeepRunning, destroyCount, tvars, evars,
                   ioIdx, ioMsg, wvars, rvars, woken, attempts, inLeft, lateTicks, ovars>>

\* Connection->Read returns a frame, and the classifier picks its mailbox.
IoReadFrame ==
    /\ pc["io"] = "read"
    /\ inLeft > 0
    /\ inLeft' = inLeft - 1
    /\ \E m \in Frames :
          /\ ioMsg' = m
          /\ pc' = [pc EXCEPT !["io"] =
                       CASE Mailbox(m) = "none" -> "cl_none"
                         [] Mailbox(m) = "presenceRequested" -> "cl_flag"
                         [] OTHER -> "cl_pay"]
    /\ UNCHANGED <<qvars, mvars, cvars, tvars, evars, ioIdx, ioRet, wvars, rvars,
                   woken, attempts, lateTicks, ovars>>

\* A frame that goes to no mailbox is dropped, and the loop reads again.
IoClassifyNone ==
    /\ pc["io"] = "cl_none"
    /\ ioMsg' = NoFrame
    /\ pc' = [pc EXCEPT !["io"] = "read"]
    /\ UNCHANGED <<qvars, mvars, cvars, tvars, evars, ioIdx, ioRet, wvars, rvars,
                   woken, attempts, inLeft, lateTicks, ovars>>

\* The classifier copies the frame's data into the mailbox's buffer.
IoClassifyPayload ==
    /\ pc["io"] = "cl_pay"
    /\ SetPayload(Mailbox(ioMsg), ioMsg.data)
    /\ pc' = [pc EXCEPT !["io"] = "cl_flag"]
    /\ UNCHANGED <<qvars, fvars, occ, cvars, tvars, evars, ivars, wvars, rvars, woken,
                   attempts, inLeft, lateTicks, ovars>>

\* The classifier's <flag>.store(true).
IoClassifyFlag ==
    /\ pc["io"] = "cl_flag"
    /\ SetFlag(Mailbox(ioMsg), TRUE)
    /\ occ' = [occ EXCEPT ![Mailbox(ioMsg)] = Occurred(@, ioMsg.data)]
    /\ ioMsg' = NoFrame
    /\ pc' = [pc EXCEPT !["io"] = "read"]
    /\ UNCHANGED <<qvars, pvars, cvars, tvars, evars, ioIdx, ioRet, wvars, rvars,
                   woken, attempts, inLeft, lateTicks, ovars>>

\* The write-pass's loop test: while (SendQueuePendingSends.load()).
HasPending(pending) == pending # 0

IoWriteLoad ==
    /\ pc["io"] = "wr_load"
    /\ pc' = [pc EXCEPT !["io"] = IF HasPending(SendQueuePendingSends)
                                  THEN "wr_next" ELSE "wait"]
    /\ UNCHANGED <<qvars, mvars, cvars, tvars, evars, ivars, wvars, rvars, woken,
                   attempts, inLeft, lateTicks, ovars>>

\* SendQueueGetNextSendMessage: index = (SendQueueNextSend++) % MessageQueueSize.
IoWriteNext ==
    /\ pc["io"] = "wr_next"
    /\ ioIdx' = SlotOf(SendQueueNextSend)
    /\ SendQueueNextSend' = SendQueueNextSend + 1
    /\ pc' = [pc EXCEPT !["io"] = "wr_write"]
    /\ UNCHANGED <<SendQueue, SendQueueNextAdd, SendQueuePendingSends, Nonce, mvars,
                   cvars, tvars, evars, ioMsg, ioRet, wvars, rvars, woken, attempts,
                   inLeft, lateTicks, ovars>>

\* What Connection->Write reads from slot i: its content, or a mixture while
\* an enqueuer is writing it.
SlotRead(i) ==
    IF \E t \in Threads : est[t] = "fill" /\ SlotOf(eticket[t]) = i
    THEN {SendQueue[i], TornMessage}
    ELSE {SendQueue[i]}

\* The frame handed to Connection->Write, with the ticket that was first in
\* line when it was handed over.
Written(frame) ==
    /\ lastWrite' = [frame |-> frame,
                     due |-> IF committed = <<>> THEN -1 ELSE Head(committed),
                     idx |-> ioIdx,
                     open |-> Connection.isOpen]
    /\ committed' = IF committed = <<>> THEN committed ELSE Tail(committed)
    /\ sent' = IF frame.id >= 0 THEN sent \cup {frame.id} ELSE sent

\* Connection->Write(qmessage->buffer, qmessage->length) returns.
IoWrite ==
    /\ pc["io"] = "wr_write"
    /\ \E f \in SlotRead(ioIdx) : Written(f)
    /\ pc' = [pc EXCEPT !["io"] = "wr_dec"]
    /\ UNCHANGED <<qvars, mvars, cvars, tvars, evars, ivars, rvars, woken, attempts,
                   inLeft, lateTicks, ovars>>

\* Connection->Write fails: the transport closes.
IoWriteFailed ==
    /\ pc["io"] = "wr_write"
    /\ Connection.isOpen
    /\ \E f \in SlotRead(ioIdx) : Written(f)
    /\ Disconnect("wr_dec")
    /\ UNCHANGED <<qvars, mvars, Handlers, KeepRunning, destroyCount, tvars, evars,
                   ioIdx, ioMsg, rvars, woken, attempts, inLeft, lateTicks, ovars>>

\* --SendQueuePendingSends.
IoWriteDec ==
    /\ pc["io"] = "wr_dec"
    /\ SendQueuePendingSends' = SendQueuePendingSends - 1
    /\ ioIdx' = 0
    /\ pc' = [pc EXCEPT !["io"] = "wr_load"]
    /\ UNCHANGED <<SendQueue, SendQueueNextAdd, SendQueueNextSend, Nonce, mvars,
                   cvars, tvars, evars, ioMsg, ioRet, wvars, rvars, woken, attempts,
                   inLeft, lateTicks, ovars>>

\* A wait without the timeout: it returns only when notified.
WaitNotifiedOnly == woken

\* WaitForIOActivity.wait_for(lock, maxWait) returns: it was notified, or
\* maxWait has passed.
WaitReturns == woken \/ TRUE

IoWait ==
    /\ pc["io"] = "wait"
    /\ WaitReturns
    /\ woken' = FALSE
    /\ lateTicks' = IF KeepRunning THEN lateTicks ELSE lateTicks + 1
    /\ pc' = [pc EXCEPT !["io"] = "loop"]
    /\ UNCHANGED <<qvars, mvars, cvars, tvars, evars, ivars, wvars, rvars, attempts,
                   inLeft, ovars>>

\* std::chrono::system_clock::now() moves on: by one granule of BackoffMin
\* milliseconds, or up to the time the next attempt is due.
AdvanceTime ==
    /\ \E t \in {now + BackoffMin, NextConnect} :
           /\ t > now
           /\ t <= MaxNow
           /\ now' = t
    /\ UNCHANGED <<qvars, mvars, cvars, ReconnectTimeMs, NextConnect, sched, evars, ivars,
                   wvars, rvars, pc, woken, attempts, inLeft, lateTicks, ovars>>

\* The steps of an enqueue by thread t.
EnqueueStep(t) ==
    \/ EnqReserve(t)
    \/ EnqLoadNonce(t)
    \/ EnqFill(t)
    \/ EnqCommit(t)
    \/ EnqSignal(t)

\* The steps of the tick that touch neither a frame of the peer nor the clock.
IoStep ==
    \/ IoLoop
    \/ IoOpenConnected
    \/ IoOpenPending
    \/ IoOpenFailed
    \/ IoConnectFlag
    \/ IoRegister
    \/ IoDisconnectPayload
    \/ IoDisconnectFlag
    \/ IoReadNone
    \/ IoReadFailed
    \/ IoWriteLoad
    \/ IoWriteNext
    \/ IoWrite
    \/ IoWriteFailed
    \/ IoWriteDec
    \/ IoWait

\* -------------------------------------------------- Discord_RunCallbacks
\* Where the main thread is when no call of it is running.
MainRest == IF destroyCount >= inits THEN "down" ELSE "idle"

\* The position of each exchange after the first, of each handler call that
\* passes a payload buffer, and what follows each mailbox.
ExchangePc(k) ==
    CASE k = "disconnected" -> "rc_dis"
      [] k = "ready" -> "rc_rdy"
      [] k = "presenceRequested" -> "rc_pr"
      [] k = "joinGame" -> "rc_jg"
      [] OTHER -> "rc_sg"

CallPc(k) ==
    CASE k = "errored" -> "call_err"
      [] k = "disconnected" -> "call_dis"
      [] k = "joinGame" -> "call_jg"
      [] OTHER -> "call_sg"

\* The ready block placed before the disconnected block.
AfterMailboxReadyFirst(k) ==
    CASE k = "errored" -> "rc_rdy"
      [] k = "ready" -> "rc_dis"
      [] k = "disconnected" -> "rc_pr"
      [] k = "presenceRequested" -> "rc_jg"
      [] k = "joinGame" -> "rc_sg"
      [] OTHER -> MainRest

AfterMailbox(k) ==
    CASE k = "errored" -> "rc_dis"
      [] k = "disconnected" -> "rc_rdy"
      [] k = "ready" -> "rc_pr"
      [] k = "presenceRequested" -> "rc_jg"
      [] k = "joinGame" -> "rc_sg"
      [] OTHER -> MainRest

HasPayload(k) == k \in {"errored", "disconnected", "joinGame", "spectateGame"}

\* A load where the code has exchange(false): the flag stays set.
ClearFlagNot(k) == UNCHANGED fvars

\* The handler tested first: the flag of a kind without handler stays set.
ClearFlagIfHandled(k) == IF k \in Handlers THEN SetFlag(k, FALSE) ELSE UNCHANGED fvars

\* The store of <flag>.exchange(false).
ClearFlag(k) == SetFlag(k, FALSE)

\* if (<flag>.exchange(false) && Handlers.<kind>): the exchange and the test.
\* ready() and presenceRequested() take no payload and are invoked at once; a
\* handler that is passed a buffer reads it in the step that follows.
RcExchange(k) ==
    /\ IF k = "errored"
       THEN pc["main"] \in {"idle", "down"} /\ est["main"] = "none" /\ runs < MaxRuns
       ELSE pc["main"] = ExchangePc(k)
    /\ ClearFlag(k)
    /\ rcTaken' = occ[k]
    /\ occ' = [occ EXCEPT ![k] = <<>>]
    /\ runs' = IF k = "errored" THEN runs + 1 ELSE runs
    /\ rcSeen' = Append(IF k = "errored" THEN <<>> ELSE rcSeen,
                        [kind |-> k, set |-> MailFlag(k)])
    /\ LET called == IF k = "errored" THEN <<>> ELSE rcCalls
       IN  IF MailFlag(k) /\ k \in Handlers
           THEN IF HasPayload(k)
                THEN /\ pc' = [pc EXCEPT !["main"] = CallPc(k)]
                     /\ rcCalls' = called
                     /\ lastCall' = lastCall
                ELSE /\ pc' = [pc EXCEPT !["main"] = AfterMailbox(k)]
                     /\ rcCalls' = Append(called, k)
                     /\ lastCall' = [handler |-> k, data |-> NoData, taken |-> occ[k]]
           ELSE /\ pc' = [pc EXCEPT !["main"] = AfterMailbox(k)]
                /\ rcCalls' = called
                /\ lastCall' = lastCall
    /\ UNCHANGED <<qvars, pvars, cvars, tvars, evars, ivars, wvars, woken, attempts,
                   inLeft, lateTicks, ovars>>

\* What a handler reads from mailbox k's buffer: its content, or a mixture
\* while the I/O thread is writing it.
PayloadRead(k) ==
    IF \/ pc["io"] = "cl_pay" /\ Mailbox(ioMsg) = k
       \/ pc["io"] = "od_pay" /\ k = "disconnected"
    THEN {MailPayload(k), Torn}
    ELSE {MailPayload(k)}

\* Handlers.<kind>(<payload buffer>).
RcCall(k) ==
    /\ HasPayload(k)
    /\ pc["main"] = CallPc(k)
    /\ \E d \in PayloadRead(k) :
           lastCall' = [handler |-> k, data |-> d, taken |-> rcTaken]
    /\ rcCalls' = Append(rcCalls, k)
    /\ pc' = [pc EXCEPT !["main"] = AfterMailbox(k)]
    /\ UNCHANGED <<qvars, mvars, cvars, tvars, evars, ivars, wvars, rcTaken, runs,
                   rcSeen, woken, attempts, inLeft, lateTicks, ovars>>

\* ----------------------------------------------------- Discord_Shutdown
\* Connection->onConnect = nullptr.
ShutdownClearOnConnect ==
    /\ pc["main"] = "idle"
    /\ est["main"] = "none"
    /\ destroyCount < inits
    /\ Connection' = [Connection EXCEPT !.onConnect = FALSE]
    /\ pc' = [pc EXCEPT !["main"] = "sd_od"]
    /\ UNCHANGED <<qvars, mvars, Handlers, KeepRunning, destroyCount, tvars, evars,
                   ivars, wvars, rvars, woken, attempts, inLeft, lateTicks, ovars>>

\* Connection->onDisconnect = nullptr.
ShutdownClearOnDisconnect ==
    /\ pc["main"] = "sd_od"
    /\ Connection' = [Connection EXCEPT !.onDisconnect = FALSE]
    /\ pc' = [pc EXCEPT !["main"] = "sd_h"]
    /\ UNCHANGED <<qvars, mvars, Handlers, KeepRunning, destroyCount, tvars, evars,
                   ivars, wvars, rvars, woken, attempts, inLeft, lateTicks, ovars>>

\* Shutdown leaving the Handlers table as it is.
KeptHandlers == Handlers

\* Handlers = {}.
ClearedHandlers == {}

ShutdownClearHandlers ==
    /\ pc["main"] = "sd_h"
    /\ Handlers' = ClearedHandlers
    /\ pc' = [pc EXCEPT !["main"] = "sd_kr"]
    /\ UNCHANGED <<qvars, mvars, Connection, KeepRunning, destroyCount, tvars, evars,
                   ivars, wvars, rvars, woken, attempts, inLeft, lateTicks, ovars>>

\* KeepRunning.exchange(false).
ShutdownStop ==
    /\ pc["main"] = "sd_kr"
    /\ KeepRunning' = FALSE
    /\ pc' = [pc EXCEPT !["main"] = "sd_sig"]
    /\ UNCHANGED <<qvars, mvars, Handlers, Connection, destroyCount, tvars, evars,
                   ivars, wvars, rvars, woken, attempts, inLeft, lateTicks, ovars>>

\* SignalIOActivity().
ShutdownSignal ==
    /\ pc["main"] = "sd_sig"
    /\ woken' = Notified
    /\ pc' = [pc EXCEPT !["main"] = "sd_join"]
    /\ UNCHANGED <<qvars, mvars, cvars, tvars, evars, ivars, wvars, rvars, attempts,
                   inLeft, lateTicks, ovars>>

\* IoThread.join() returns once DiscordRpcIo has returned.
ShutdownJoin ==
    /\ pc["main"] = "sd_join"
    /\ pc["io"] = "done"
    /\ pc' = [pc EXCEPT !["main"] = "sd_destroy"]
    /\ UNCHANGED <<qvars, mvars, cvars, tvars, evars, ivars, wvars, rvars, woken,
                   attempts, inLeft, lateTicks, ovars>>

\* RpcConnection::Destroy(Connection).
ShutdownDestroy ==
    /\ pc["main"] = "sd_destroy"
    /\ destroyCount' = destroyCount + 1
    /\ Connection' = [Connection EXCEPT !.isOpen = FALSE]
    /\ pc' = [pc EXCEPT !["main"] = "down"]
    /\ UNCHANGED <<qvars, mvars, Handlers, KeepRunning, tvars, evars, ivars, wvars,
                   rvars, woken, attempts, inLeft, lateTicks, ovars>>

\* --------------------------------------------------- Discord_Initialize
\* Discord_Initialize after a Discord_Shutdown has returned: Handlers is
\* assigned, a connection is created with both callbacks set, and IoThread
\* is started anew. No other static is assigned.
Initialize(h) ==
    /\ pc["main"] = "down"
    /\ est["main"] = "none"
    /\ inits < MaxInits
    /\ inits' = inits + 1
    /\ Handlers' = h
    /\ Connection' = [isOpen |-> FALSE, onConnect |-> TRUE, onDisconnect |-> TRUE]
    /\ pc' = [pc EXCEPT !["main"] = "idle", !["io"] = "loop"]
    /\ UNCHANGED <<qvars, mvars, KeepRunning, destroyCount, tvars, evars, ivars,
                   wvars, rvars, woken, attempts, inLeft, lateTicks, subs>>

\* The steps of Discord_RunCallbacks, and of Discord_Shutdown.
RunCallbacksStep ==
    \/ \E k \in AllHandlers : RcExchange(k)
    \/ \E k \in AllHandlers : RcCall(k)

ShutdownStep ==
    \/ ShutdownClearOnConnect
    \/ ShutdownClearOnDisconnect
    \/ ShutdownClearHandlers
    \/ ShutdownStop
    \/ ShutdownSignal
    \/ ShutdownJoin
    \/ ShutdownDestroy

\* The steps of the tick that take a frame of the peer.
IoFrameStep ==
    \/ IoReadFrame
    \/ IoClassifyNone
    \/ IoClassifyPayload
    \/ IoClassifyFlag

\* ------------------------------------------------ the queue, concurrently
\* The main thread calls Discord_UpdatePresence while IoThread runs, with a
\* joinGame handler registered; the peer sends no event frame and nobody
\* dispatches or shuts down.
QInit == InitWith({"joinGame"}, 0)

QNext ==
    \/ UpdatePresence("main")
    \/ \E t \in Threads : EnqueueStep(t)
    \/ IoStep

QSpec == QInit /\ [][QNext]_vars

\* The slots of the tickets that are committed and not yet handed to Write.
UnsentSlots == {SlotOf(committed[i]) : i \in 1 .. Len(committed)}

\* The step in which the write-pass calls Connection->Write.
WriteCall == pc["io"] = "wr_write" /\ pc'["io"] # "wr_write"

\* C1: in every reachable state SendQueuePendingSends <= MessageQueueSize,
\* whatever the interleaving of the enqueues of the main thread, the
\* RegisterForEvent of onConnect and the write-pass.
C1_PendingWithinCapacity == SendQueuePendingSends <= MessageQueueSize

\* C3: every frame the write-pass hands to Connection->Write is the frame of
\* the enqueue that was first in line (the oldest committed ticket not yet
\* written): nothing is reordered, duplicated or skipped.
C3_WritesInEnqueueOrder ==
    lastWrite.due # -1 => lastWrite.frame.id = lastWrite.due

\* C4: no two uncommitted reservations refer to the same slot, and no
\* reservation refers to a slot whose committed frame is not yet written.
C4_ReservationExclusive ==
    /\ \A t, u \in Threads :
          (t # u /\ Reserved(t) /\ Reserved(u))
              => SlotOf(eticket[t]) # SlotOf(eticket[u])
    /\ \A t \in Threads :
          Reserved(t) => SlotOf(eticket[t]) \notin UnsentSlots

\* C5: the write-pass never hands Connection->Write a slot that a thread has
\* reserved and not yet committed.
C5_WriteOnlyCommitted ==
    [][WriteCall => ~\E t \in Threads : Reserved(t) /\ SlotOf(eticket[t]) = ioIdx]_vars

\* ----------------------------------------- dispatch and shutdown, concurrently
\* The main thread dispatches and shuts down while IoThread runs and the peer
\* sends event frames.
AInit == InitWith({"ready", "joinGame"}, MaxInbound)

ANext ==
    \/ RunCallbacksStep
    \/ ShutdownStep
    \/ EnqueueStep("io")
    \/ IoStep
    \/ IoFrameStep

ASpec == AInit /\ [][ANext]_vars

\* C6: the payload a handler is passed is the payload written for the
\* occurrence whose flag RunCallbacks cleared (the last one set before the
\* exchange), and every occurrence set since the last clear still has its
\* flag set.
C6_PayloadOfClearedOccurrence ==
    /\ HasPayload(lastCall.handler)
           => lastCall.data = lastCall.taken[Len(lastCall.taken)]
    /\ \A k \in AllHandlers : occ[k] # <<>> => MailFlag(k)

\* A handler is invoked in this step.
HandlerInvoked == Len(rcCalls') > Len(rcCalls)

\* Discord_Shutdown has returned: Destroy is its last statement.
ShutdownReturned == destroyCount > 0

\* C8: once Discord_Shutdown has returned no handler is invoked, and when it
\* returns RpcConnection::Destroy has been called exactly once.
C8_QuietAfterShutdown ==
    [][/\ ShutdownReturned => ~HandlerInvoked
       /\ pc'["main"] = "down" => destroyCount' = 1]_vars

\* An RunCallbacks after Shutdown takes a mailbox that was set, and invokes
\* nothing.
C8_Witness ==
    /\ ShutdownReturned
    /\ pc["main"] = "rc_pr"
    /\ rcTaken # <<>>
    /\ rcCalls = <<>>

\* Shutdown writes the Handlers table or a callback of the connection in
\* this step.
ShutdownWrites ==
    \/ Handlers' # Handlers
    \/ Connection'.onConnect # Connection.onConnect
    \/ Connection'.onDisconnect # Connection.onDisconnect

\* The I/O thread is inside a tick: past the loop test and not yet waiting.
IoInTick == pc["io"] \notin {"loop", "wait", "done"}

\* C9: Shutdown writes Handlers and the connection's callbacks only when the
\* I/O thread is not inside a tick.
C9_ShutdownWritesAfterIoStopped ==
    [][ShutdownWrites => ~IoInTick]_vars

\* ------------------------------------------------------ one call at a time
\* The same steps under run-to-completion scheduling: a thread takes a step
\* only while the other is between two calls (the I/O thread between two
\* ticks), so every enqueue, dispatch and tick runs alone.
MainAtRest == pc["main"] \in {"idle", "down"} /\ est["main"] = "none"
IoAtRest == pc["io"] \in {"loop", "wait", "done"}

\* Enqueues and ticks, one at a time; the peer sends no event frame.
SeqQInit == \E h \in {AllHandlers, {"joinGame"}, {}} : InitWith(h, 0)

SeqQNext ==
    \/ IoAtRest /\ UpdatePresence("main")
    \/ IoAtRest /\ EnqReserve("main")
    \/ IoAtRest /\ EnqLoadNonce("main")
    \/ IoAtRest /\ EnqFill("main")
    \/ IoAtRest /\ EnqCommit("main")
    \/ IoAtRest /\ EnqSignal("main")
    \/ MainAtRest /\ EnqReserve("io")
    \/ MainAtRest /\ EnqLoadNonce("io")
    \/ MainAtRest /\ EnqFill("io")
    \/ MainAtRest /\ EnqCommit("io")
    \/ MainAtRest /\ EnqSignal("io")
    \/ MainAtRest /\ IoLoop
    \/ MainAtRest /\ IoOpenConnected
    \/ MainAtRest /\ IoOpenPending
    \/ MainAtRest /\ IoOpenFailed
    \/ MainAtRest /\ IoConnectFlag
    \/ MainAtRest /\ IoRegister
    \/ MainAtRest /\ IoDisconnectPayload
    \/ MainAtRest /\ IoDisconnectFlag
    \/ MainAtRest /\ IoReadNone
    \/ MainAtRest /\ IoReadFailed
    \/ MainAtRest /\ IoWriteLoad
    \/ MainAtRest /\ IoWriteNext
    \/ MainAtRest /\ IoWrite
    \/ MainAtRest /\ IoWriteFailed
    \/ MainAtRest /\ IoWriteDec
    \/ MainAtRest /\ IoWait

SeqQSpec == SeqQInit /\ [][SeqQNext]_vars

\* C2: from the empty queue, while no tick has drained anything, enqueues
\* that complete one after another succeed exactly up to MessageQueueSize:
\* the first eight take slots 0..7 in order and are committed, every later
\* one is refused, and SendQueuePendingSends never exceeds the capacity.
C2_FirstEightSucceed ==
    SendQueueNextSend = 0 =>
        /\ SendQueuePendingSends <= MessageQueueSize
        /\ (MainAtRest /\ est["io"] = "none") =>
              /\ SendQueueNextAdd = Min(attempts, MessageQueueSize)
              /\ SendQueuePendingSends = SendQueueNextAdd
              /\ \A i \in 0 .. (SendQueueNextAdd - 1) : SendQueue[i].id = i

\* More than MessageQueueSize enqueues have completed, undrained.
C2_Witness ==
    /\ SendQueueNextSend = 0
    /\ MainAtRest
    /\ est["io"] = "none"
    /\ attempts > MessageQueueSize
    /\ SendQueuePendingSends = MessageQueueSize

\* Dispatches and ticks, one at a time, while the peer sends event frames.
SeqAInit == \E h \in {AllHandlers, {"joinGame"}, {}} : InitWith(h, MaxInbound)

SeqANext ==
    \/ \E k \in AllHandlers : IoAtRest /\ RcExchange(k)
    \/ \E k \in AllHandlers : IoAtRest /\ RcCall(k)
    \/ MainAtRest /\ EnqReserve("io")
    \/ MainAtRest /\ EnqLoadNonce("io")
    \/ MainAtRest /\ EnqFill("io")
    \/ MainAtRest /\ EnqCommit("io")
    \/ MainAtRest /\ EnqSignal("io")
    \/ MainAtRest /\ IoLoop
    \/ MainAtRest /\ IoOpenConnected
    \/ MainAtRest /\ IoOpenPending
    \/ MainAtRest /\ IoOpenFailed
    \/ MainAtRest /\ IoConnectFlag
    \/ MainAtRest /\ IoRegister
    \/ MainAtRest /\ IoDisconnectPayload
    \/ MainAtRest /\ IoDisconnectFlag
    \/ MainAtRest /\ IoReadNone
    \/ MainAtRest /\ IoReadFailed
    \/ MainAtRest /\ IoReadFrame
    \/ MainAtRest /\ IoClassifyNone
    \/ MainAtRest /\ IoClassifyPayload
    \/ MainAtRest /\ IoClassifyFlag
    \/ MainAtRest /\ IoWriteLoad
    \/ MainAtRest /\ IoWriteNext
    \/ MainAtRest /\ IoWrite
    \/ MainAtRest /\ IoWriteFailed
    \/ MainAtRest /\ IoWriteDec
    \/ MainAtRest /\ IoWait

SeqASpec == SeqAInit /\ [][SeqANext]_vars

\* The joinGame invocations of the running (or last) RunCallbacks.
JoinCalls == Cardinality({i \in 1 .. Len(rcCalls) : rcCalls[i] = "joinGame"})

\* C7: when RunCallbacks has dealt with the join mailbox: if two or more
\* JOIN_GAME occurrences were set since the last dispatch, the joinGame
\* handler was invoked exactly once, with the secret of the last one; if
\* none was, it was not invoked.
C7_JoinCollapses ==
    pc["main"] = "rc_sg" =>
        /\ (Len(rcTaken) >= 2 /\ "joinGame" \in Handlers) =>
              /\ JoinCalls = 1
              /\ lastCall.handler = "joinGame"
              /\ lastCall.data = rcTaken[Len(rcTaken)]
        /\ rcTaken = <<>> => JoinCalls = 0

\* The second dispatch finds no join occurrence and invokes nothing, after
\* the first delivered "B" for the occurrences "A" then "B".
C7_Witness ==
    /\ pc["main"] = "rc_sg"
    /\ runs = 2
    /\ rcTaken = <<>>
    /\ JoinCalls = 0
    /\ lastCall = [handler |-> "joinGame", data |-> "B", taken |-> <<"A", "B">>]

\* ------------------------------------------------ shutdown, under fairness
\* Discord_Shutdown on the main thread while IoThread runs. The scheduler
\* lets each thread take its next step eventually, and a wait_for that can
\* return does.
LInit == InitWith({"joinGame"}, MaxInbound)

IoThreadStep == EnqueueStep("io") \/ IoStep \/ IoFrameStep

LNext ==
    \/ ShutdownStep
    \/ EnqueueStep("io")
    \/ IoStep
    \/ IoFrameStep

LSpec ==
    /\ LInit
    /\ [][LNext]_vars
    /\ WF_vars(ShutdownStep)
    /\ WF_vars(IoThreadStep)

\* C10: once KeepRunning is cleared, Discord_Shutdown returns, and the loop
\* finishes at most one more iteration (one tick, one bounded wait) on the
\* way.
C10_ShutdownReturns ==
    /\ (~KeepRunning) ~> (pc["main"] = "down")
    /\ [](lateTicks <= 1)

\* The loop starts waiting after Shutdown has raised the notification: the
\* wake-up is missed.
C10_Witness ==
    /\ pc["main"] = "sd_join"
    /\ pc["io"] = "wait"
    /\ ~woken
    /\ ~KeepRunning

\* ------------------------------------------------ the reconnect schedule
\* IoThread alone while the clock moves on: the transport connects, fails
\* and closes. No handler that onConnect subscribes for is registered and
\* nobody else calls in, so the queue stays empty and the write-pass ends at
\* its first test.
TInit == InitWith({"ready", "disconnected"}, 0)

TNext ==
    \/ IoLoop
    \/ IoOpenConnected
    \/ IoOpenPending
    \/ IoOpenFailed
    \/ IoConnectFlag
    \/ IoRegister
    \/ IoDisconnectPayload
    \/ IoDisconnectFlag
    \/ IoReadNone
    \/ IoReadFailed
    \/ IoWriteLoad
    \/ IoWait
    \/ AdvanceTime

TSpec == TInit /\ [][TNext]_vars

\* The head of a tick that finds the transport closed.
ClosedTick ==
    /\ pc["io"] = "loop"
    /\ pc'["io"] \in {"open", "wait"}
    /\ ~Connection.isOpen

\* C11: after onDisconnect at time T computed the delay D, a tick that finds
\* the transport closed calls Connection->Open exactly when the time is at
\* least T + D: no tick before it opens, the first tick at or after it does.
C11_ReconnectTiming ==
    [][(ClosedTick /\ sched.by = "disconnect")
          => ((pc'["io"] = "open") <=> (now >= sched.at + sched.delay))]_vars

\* A tick has called Open after an earlier tick, before T + D, did not.
C11_Witness ==
    /\ pc["io"] = "open"
    /\ sched.by = "attempt"
    /\ sched.after = "waited"

\* --------------------------------------------- the subscribes of onConnect
\* onConnect has run to its end on the connection that is open now.
OnConnectReturned ==
    /\ Connection.isOpen
    /\ pc["io"] \notin {"oc_flag", "oc_pr", "oc_jg", "oc_sg"}

\* The handler an event kind is subscribed for.
HandlerOf(e) ==
    CASE e = "PRESENCE_REQUESTED" -> "presenceRequested"
      [] e = "JOIN_GAME" -> "joinGame"
      [] OTHER -> "spectateGame"

HasHandler(e) == HandlerOf(e) \in Handlers

\* C12: when onConnect has returned, the subscribes it enqueued are exactly
\* one for each of PRESENCE_REQUESTED, JOIN_GAME and SPECTATE_GAME whose
\* handler is registered, whatever the queue held when the transport
\* connected.
C12_SubscribePerHandler ==
    OnConnectReturned =>
        subs = SelectSeq(<<"PRESENCE_REQUESTED", "JOIN_GAME", "SPECTATE_GAME">>,
                         HasHandler)

\* ------------------------------------------------- shutdown and initialize
\* The main thread shuts the session down and initializes it again, in
\* managed mode, while IoThread runs.
RInit == InitWith({"joinGame"}, 0)

RNext ==
    \/ ShutdownStep
    \/ \E h \in {{"joinGame"}} : Initialize(h)
    \/ EnqueueStep("io")
    \/ IoStep

RSpec == RInit /\ [][RNext]_vars

\* A session is live and Discord_Shutdown has not been called on it.
SessionRunning ==
    /\ destroyCount < inits
    /\ pc["main"] \notin {"sd_od", "sd_h", "sd_kr", "sd_sig", "sd_join", "sd_destroy"}

\* C13: when Discord_Initialize returns after a Discord_Shutdown, the queue
\* counters, the mailbox flags and the reconnect schedule have their initial
\* values, and from then until the next Discord_Shutdown is called the
\* background loop has not ended.
C13_ReinitializeRestores ==
    [][/\ inits' > inits =>
              /\ SendQueueNextAdd' = 0
              /\ SendQueueNextSend' = 0
              /\ SendQueuePendingSends' = 0
              /\ \A k \in AllHandlers : ~MailFlag(k)'
              /\ ReconnectTimeMs' = BackoffMin
              /\ NextConnect' <= now'
       /\ (inits' > 1 /\ SessionRunning') => pc'["io"] # "done"]_vars

\* ------------------------------------------------------- the classifier
\* The routing table: the mailbox each inbound message is to set.
RoutedTo(m) ==
    CASE m.nonce /\ m.evt = "ERROR" -> "errored"
      [] m.nonce /\ m.evt # "ERROR" -> "none"
      [] ~m.nonce /\ m.evt = "PRESENCE_REQUESTED" -> "presenceRequested"
      [] ~m.nonce /\ m.evt = "JOIN_GAME" -> "joinGame"
      [] ~m.nonce /\ m.evt = "SPECTATE_GAME" -> "spectateGame"
      [] OTHER -> "none"

\* The I/O thread takes a step of the classifier on the frame it has read.
ClassifierStep ==
    /\ pc["io"] \in {"cl_none", "cl_pay", "cl_flag"}
    /\ pc'["io"] # pc["io"]

\* C14: the classifier handles the frame it has read as the table says. It
\* writes the data into the payload of the table's mailbox and no other
\* payload, then sets the flag of that mailbox and no other flag; for a
\* frame the table sends to none it changes no flag and no payload.
C14_ClassifierTable ==
    [][ClassifierStep =>
          LET k == RoutedTo(ioMsg)
          IN  /\ pc["io"] = "cl_none" => k = "none"
              /\ pc["io"] = "cl_pay" => HasPayload(k)
              /\ pc["io"] = "cl_flag" =>
                     /\ k # "none"
                     /\ HasPayload(k) => MailPayload(k) = ioMsg.data
              /\ \A j \in AllHandlers :
                     /\ MailFlag(j)' = IF j = k /\ pc["io"] = "cl_flag"
                                       THEN TRUE ELSE MailFlag(j)
                     /\ MailPayload(j)' = IF j = k /\ pc["io"] = "cl_pay"
                                          THEN ioMsg.data ELSE MailPayload(j)]_vars

\* The spectate mailbox is set with the secret of a SPECTATE_GAME frame
\* without nonce, and the error mailbox with code 4000 and message "oops".
C14_Witness ==
    /\ WasSpectateGame
    /\ SpectateGameSecret = "B"
    /\ GotErrorMessage
    /\ LastError = <<4000, "oops">>
    /\ ~WasJoinGame
    /\ ~WasPresenceRequested

\* ------------------------------------------------ the order of a dispatch
\* The fixed order of Discord_RunCallbacks.
DispatchOrder ==
    <<"errored", "disconnected", "ready", "presenceRequested", "joinGame", "spectateGame">>

\* Discord_RunCallbacks returns in this step.
RunReturns ==
    /\ pc["main"] \in {"rc_sg", "call_sg"}
    /\ pc'["main"] \in {"idle", "down"}

\* The handlers a dispatch with these exchanges is to invoke, in order.
DueCalls(seen) ==
    LET Due(k) == /\ k \in Handlers
                  /\ \E i \in 1 .. Len(seen) : seen[i].kind = k /\ seen[i].set
    IN  SelectSeq(DispatchOrder, Due)

\* C15: every exchange of a dispatch leaves its flag cleared, with or
\* without a handler; when the dispatch returns it has exchanged the six
\* flags in the fixed order, and it has invoked, in that order and once
\* each, exactly the registered handlers of the flags it found set.
C15_DispatchOrder ==
    [][/\ rcSeen' # rcSeen =>
              \A k \in AllHandlers :
                  rcSeen'[Len(rcSeen')].kind = k => ~MailFlag(k)'
       /\ RunReturns =>
              /\ [i \in 1 .. Len(rcSeen') |-> rcSeen'[i].kind] = DispatchOrder
              /\ rcCalls' = DueCalls(rcSeen')]_vars

\* A dispatch has returned that found four flags set and invoked their
\* handlers in the fixed order, the transport having connected before it
\* closed.
C15_Witness ==
    /\ pc["main"] = "idle"
    /\ Len(rcSeen) = 6
    /\ rcCalls = <<"errored", "disconnected", "ready", "joinGame">>
    /\ \A k \in AllHandlers : ~MailFlag(k)

\* ------------------------------------------------ the request identifiers
\* The frames in the queue whose enqueue has committed them.
EnqueuedFrames ==
    {SendQueue[i] : i \in {j \in Slots :
        /\ SendQueue[j].id >= 0
        /\ ~\E t \in Threads : Reserved(t) /\ eticket[t] = SendQueue[j].id}}

\* C16: the request identifiers of the enqueued frames increase strictly
\* from each frame to the next, in whatever order the enqueues are taken;
\* so two frames of different enqueues never carry the same identifier.
C16_NonceUnique ==
    \A f, g \in EnqueuedFrames :
        f.id # g.id => f.nonce # g.nonce

\* ------------------------------------------------------------ the backoff
\* A delay is computed for NextConnect in this step: by a tick that is about
\* to call Open, or by onDisconnect.
DelayComputed ==
    \/ pc["io"] = "loop" /\ pc'["io"] = "open"
    \/ pc["io"] = "od_flag" /\ pc'["io"] # "od_flag"

\* C17: every delay computed for NextConnect is at most BackoffMax; the
\* first one after a connect success (and the first one of all) is
\* BackoffMin, and every other one is at least the one computed before it.
C17_BackoffMonotonic ==
    [][DelayComputed =>
          /\ sched'.delay <= BackoffMax
          /\ IF sched.delay = 0
             THEN sched'.delay = BackoffMin
             ELSE sched'.delay >= sched.delay]_vars

\* After a connect success the transport closed and the attempts that
\* followed failed until the delay reached the ceiling.
C17_Witness ==
    /\ WasJustConnected
    /\ sched.by = "disconnect"
    /\ sched.delay = BackoffMax

\* ------------------------------------------------- what leaves the queue
\* C18: every frame the write-pass has taken out of the queue was handed to
\* Connection->Write while the transport was open; a frame pending when the
\* transport closes stays queued.
C18_RemovedOnlyWhileOpen ==
    lastWrite.idx # -1 => lastWrite.open

\* ------------------------------------------- the connection callbacks
\* The connection callbacks the running dispatch has invoked, in order.
ConnectionCalls ==
    SelectSeq(rcCalls, LAMBDA k : k \in {"ready", "disconnected"})

\* C19: when a dispatch has invoked both connection callbacks, the one it
\* invoked last is that of the transport's latest transition: ready if the
\* transport is open, disconnected if it is closed. (The ready exchange is
\* the last of the two; no tick runs during the dispatch.)
C19_LastCallbackIsLatest ==
    (pc["main"] = "rc_pr" /\ Len(ConnectionCalls) = 2) =>
        ConnectionCalls[2] = IF Connection.isOpen THEN "ready" ELSE "disconnected"

\* C19, amended: a dispatch that finds both connection flags set, with both
\* handlers registered, invokes disconnected and then ready, whichever
\* transition came last.
C19_DisconnectedThenReady ==
    (/\ pc["main"] = "rc_pr"
     /\ {"ready", "disconnected"} \subseteq Handlers
     /\ rcSeen[2].set
     /\ rcSeen[3].set)
        => ConnectionCalls = <<"disconnected", "ready">>

\* The transport connected and then closed between two dispatches: ready is
\* invoked last, and the transport is closed.
C19_Witness ==
    /\ pc["main"] = "rc_pr"
    /\ ConnectionCalls = <<"disconnected", "ready">>
    /\ ~Connection.isOpen

\* ------------------------------------------------ the drain, under fairness
\* The main thread calls Discord_UpdatePresence while IoThread runs, with a
\* joinGame handler registered; the transport opens at the first attempt
\* and stays open, and the peer sends nothing. The scheduler lets each
\* thread take its next step eventually and a wait_for that can return
\* does; the main thread may stop calling at any time.
DInit == InitWith({"joinGame"}, 0)

IoOpenStep ==
    \/ IoLoop
    \/ IoOpenConnected
    \/ IoConnectFlag
    \/ IoRegister
    \/ IoReadNone
    \/ IoWriteLoad
    \/ IoWriteNext
    \/ IoWrite
    \/ IoWriteDec
    \/ IoWait

DNext ==
    \/ UpdatePresence("main")
    \/ EnqueueStep("main")
    \/ EnqueueStep("io")
    \/ IoOpenStep

DSpec ==
    /\ DInit
    /\ [][DNext]_vars
    /\ WF_vars(EnqueueStep("main"))
    /\ WF_vars(EnqueueStep("io") \/ IoOpenStep)

\* The tickets of the enqueues that have committed.
CommittedTickets ==
    (0 .. (SendQueueNextAdd - 1)) \ {eticket[t] : t \in {u \in Threads : Reserved(u)}}

\* C20: from some point on the frame of every committed enqueue has been
\* handed to Connection->Write and SendQueuePendingSends is 0.
C20_QueueDrains ==
    <>[](SendQueuePendingSends = 0 /\ CommittedTickets \subseteq sent)
====
